---- MODULE Spec2Model ----
(***************************************************************************)
(* Model of flag.go: the flag binder (flag), the flag set (flagSet), the   *)
(* default-expression resolver (parseExpression) and the type coercer      *)
(* (setWithProperType).                                                    *)
(*                                                                         *)
(* A Go string is a sequence of one-character strings.  An integer value   *)
(* is an exact decimal number [neg, mag] (mag: digits, most significant    *)
(* first, no leading zero), so that the 64-bit limits of strconv and of    *)
(* the minmax checks are the real ones.                                    *)
(* The field kinds modelled are bool, string, the signed and unsigned      *)
(* integers, slices and maps; the float kinds are left out.  The results   *)
(* of calls are passed to small operators as arguments, so every call      *)
(* appears once in the operator that makes it.                             *)
(***************************************************************************)
EXTENDS Integers, Sequences, FiniteSets, TLC

VARIABLES
    env,        \* the process environment read by os.Getenv
    decl,       \* the declared fields of the configuration record (type, tag)
    rec,        \* the configuration record: the value of each field
    rec0,       \* history: the record as it was before binding
    flags,      \* flagSet.flags: the binders built so far, in declaration order
    fsErr,      \* flagSet.err
    newErr,     \* the error returned by the last newFlag
    newArg,     \* history: the dontSetValue argument of the last newFlag
    calls,      \* history: per field, the setDefault/set calls and their results
    applied,    \* history: per field, whether some operation wrote or recorded a value
    nPrompts,   \* number of readPrompt runs so far
    plog,       \* history: the reads of the last readPrompt run
    pc,         \* position of the pure-function harnesses
    peIn,       \* parseExpression: the arguments (s, isNumber)
    peOut,      \* parseExpression: the result (out, err)
    coIn,       \* setWithProperType: the arguments (typ, val, s)
    coOut       \* setWithProperType: the result (err, val)

vars == <<env, decl, rec, rec0, flags, fsErr, newErr, newArg, calls, applied,
          nPrompts, plog, pc, peIn, peOut, coIn, coOut>>

binderVars == <<decl, rec, rec0, flags, fsErr, newErr, newArg, calls, applied, nPrompts, plog>>

----------------------------------------------------------------------------
(* Bounds *)

MaxCalls == 3        \* setDefault/set calls per field, single-field records
MaxMultiCalls == 1   \* setDefault/set calls in total, multi-field records
MaxPrompts == 1      \* readPrompt runs
MaxExprLen == 4      \* length of a default expression given to parseExpression

----------------------------------------------------------------------------
(* Errors *)

NoErr == "nil"
MalformedExpression == "unexpected end after $"
ExpressionEvaluationError == "expr.Eval error"
FieldNotWritable == "field can not set"
TypeMismatch == "couldn't convert"
ValueOverflow == "value overflow"
UnsupportedNesting == "unsupported type as sub field"
EmptyPair == "empty key,val pair"
UnsupportedType == "unsupported type"
PromptIOError == "prompt read error"

----------------------------------------------------------------------------
(* Strings and exact decimal numbers *)

Digits == <<"0", "1", "2", "3", "4", "5", "6", "7", "8", "9">>

IsDigit(b) == \E d \in 1..10 : Digits[d] = b

DigitVal(b) == (CHOOSE d \in 1..10 : Digits[d] = b) - 1

AllDigits(s) == \A i \in 1..Len(s) : IsDigit(s[i])

RECURSIVE StripZeros(_)
StripZeros(m) ==
    IF Len(m) > 1 /\ m[1] = 0 THEN StripZeros(Tail(m)) ELSE m

\* the magnitude written by a non-empty run of decimal digits
Mag(s) == StripZeros([i \in 1..Len(s) |-> DigitVal(s[i])])

RECURSIVE LexLeq(_, _)
LexLeq(a, b) ==
    IF a = <<>> THEN TRUE
    ELSE IF a[1] # b[1] THEN a[1] < b[1]
    ELSE LexLeq(Tail(a), Tail(b))

\* a <= b for magnitudes
MagLeq(a, b) ==
    \/ Len(a) < Len(b)
    \/ Len(a) = Len(b) /\ LexLeq(a, b)

\* x <= y for signed decimal numbers
NumLeq(x, y) ==
    IF x.neg /\ ~y.neg THEN TRUE
    ELSE IF ~x.neg /\ y.neg THEN FALSE
    ELSE IF x.neg THEN MagLeq(y.mag, x.mag)
    ELSE MagLeq(x.mag, y.mag)

Num(neg, mag) == [neg |-> neg /\ mag # <<0>>, mag |-> mag]

Zero == Num(FALSE, <<0>>)

----------------------------------------------------------------------------
(* math.Min*/Max* as exact decimal numbers *)

MinInt8 == Num(TRUE, <<1, 2, 8>>)
MaxInt8 == Num(FALSE, <<1, 2, 7>>)
MinInt16 == Num(TRUE, <<3, 2, 7, 6, 8>>)
MaxInt16 == Num(FALSE, <<3, 2, 7, 6, 7>>)
MinInt32 == Num(TRUE, <<2, 1, 4, 7, 4, 8, 3, 6, 4, 8>>)
MaxInt32 == Num(FALSE, <<2, 1, 4, 7, 4, 8, 3, 6, 4, 7>>)
MinInt64 == Num(TRUE, <<9, 2, 2, 3, 3, 7, 2, 0, 3, 6, 8, 5, 4, 7, 7, 5, 8, 0, 8>>)
MaxInt64 == Num(FALSE, <<9, 2, 2, 3, 3, 7, 2, 0, 3, 6, 8, 5, 4, 7, 7, 5, 8, 0, 7>>)
MaxUint8 == Num(FALSE, <<2, 5, 5>>)
MaxUint16 == Num(FALSE, <<6, 5, 5, 3, 5>>)
MaxUint32 == Num(FALSE, <<4, 2, 9, 4, 9, 6, 7, 2, 9, 5>>)
MaxUint64 == Num(FALSE, <<1, 8, 4, 4, 6, 7, 4, 4, 0, 7, 3, 7, 0, 9, 5, 5, 1, 6, 1, 5>>)

----------------------------------------------------------------------------
(* strconv *)

\* strconv.ParseInt(s, 10, 64): an optional sign, then decimal digits; a value
\* outside the signed 64-bit range is an error (ErrRange) like bad syntax.
ParseInt(s) ==
    IF s = <<>> THEN [err |-> "ErrSyntax", v |-> Zero]
    ELSE LET neg == s[1] = "-"
             body == IF s[1] \in {"+", "-"} THEN Tail(s) ELSE s
         IN  IF body = <<>> \/ ~AllDigits(body)
             THEN [err |-> "ErrSyntax", v |-> Zero]
             ELSE LET n == Num(neg, Mag(body))
                  IN  IF NumLeq(MinInt64, n) /\ NumLeq(n, MaxInt64)
                      THEN [err |-> NoErr, v |-> n]
                      ELSE [err |-> "ErrRange", v |-> Zero]

\* strconv.ParseUint(s, 10, 64): decimal digits only, no sign; a value above
\* the unsigned 64-bit maximum is an error (ErrRange).
ParseUint(s) ==
    IF s = <<>> \/ ~AllDigits(s) THEN [err |-> "ErrSyntax", v |-> Zero]
    ELSE LET n == Num(FALSE, Mag(s))
         IN  IF NumLeq(n, MaxUint64)
             THEN [err |-> NoErr, v |-> n]
             ELSE [err |-> "ErrRange", v |-> Zero]

----------------------------------------------------------------------------
(* Conversions of flag.go *)

getInt(s) ==
    LET r == ParseInt(s)
    IN  IF r.err # NoErr THEN [err |-> TypeMismatch, v |-> Zero]
        ELSE [err |-> NoErr, v |-> r.v]

getUint(s) ==
    LET r == ParseUint(s)
    IN  IF r.err # NoErr THEN [err |-> TypeMismatch, v |-> Zero]
        ELSE [err |-> NoErr, v |-> r.v]

getBool(s) ==
    IF s \in {<<"t", "r", "u", "e">>, <<"y", "e", "s">>, <<"y">>, <<>>}
    THEN [err |-> NoErr, v |-> TRUE]
    ELSE IF s \in {<<"f", "a", "l", "s", "e">>, <<"n", "o", "n", "e">>, <<"n", "o">>,
                   <<"n", "o", "t">>, <<"n">>}
    THEN [err |-> NoErr, v |-> FALSE]
    ELSE LET r == ParseInt(s)
         IN  IF r.err # NoErr THEN [err |-> TypeMismatch, v |-> FALSE]
             ELSE [err |-> NoErr, v |-> r.v # Zero]

minmaxIntCheck(kind, v) ==
    CASE kind \in {"Int", "Int64"} -> NumLeq(MinInt64, v) /\ NumLeq(v, MaxInt64)
      [] kind = "Int8" -> NumLeq(MinInt8, v) /\ NumLeq(v, MaxInt8)
      [] kind = "Int16" -> NumLeq(MinInt16, v) /\ NumLeq(v, MaxInt16)
      [] kind = "Int32" -> NumLeq(MinInt32, v) /\ NumLeq(v, MaxInt32)
      [] OTHER -> TRUE

minmaxUintCheck(kind, v) ==
    CASE kind \in {"Uint", "Uint64"} -> NumLeq(v, MaxUint64)
      [] kind = "Uint8" -> NumLeq(v, MaxUint8)
      [] kind = "Uint16" -> NumLeq(v, MaxUint16)
      [] kind = "Uint32" -> NumLeq(v, MaxUint32)
      [] OTHER -> TRUE

\* strings.Index(s, "="): the first position of "=", 0 when there is none
RECURSIVE IndexEq(_, _)
IndexEq(s, i) ==
    IF i > Len(s) THEN 0
    ELSE IF s[i] = "=" THEN i
    ELSE IndexEq(s, i + 1)

\* the last position of "=", 0 when there is none
RECURSIVE LastIndexEq(_, _)
LastIndexEq(s, i) ==
    IF i = 0 THEN 0
    ELSE IF s[i] = "=" THEN i
    ELSE LastIndexEq(s, i - 1)

\* splitKeyVal splitting at the last "=" instead of the first (C6 depends on the first)
splitKeyVal_LastEq(s) ==
    IF s = <<>> THEN [err |-> EmptyPair, key |-> <<>>, val |-> <<>>]
    ELSE LET index == LastIndexEq(s, Len(s))
         IN  IF index = 0 THEN [err |-> NoErr, key |-> s, val |-> <<>>]
             ELSE [err |-> NoErr,
                   key |-> SubSeq(s, 1, index - 1),
                   val |-> SubSeq(s, index + 1, Len(s))]

splitKeyVal(s) ==
    IF s = <<>> THEN [err |-> EmptyPair, key |-> <<>>, val |-> <<>>]
    ELSE LET index == IndexEq(s, 1)
         IN  IF index = 0 THEN [err |-> NoErr, key |-> s, val |-> <<>>]
             ELSE [err |-> NoErr,
                   key |-> SubSeq(s, 1, index - 1),
                   val |-> SubSeq(s, index + 1, Len(s))]

----------------------------------------------------------------------------
(* The expression resolver *)

WordBytes ==
    {"a", "b", "c", "d", "e", "f", "g", "h", "i", "j", "k", "l", "m",
     "n", "o", "p", "q", "r", "s", "t", "u", "v", "w", "x", "y", "z",
     "A", "B", "C", "D", "E", "F", "G", "H", "I", "J", "K", "L", "M",
     "N", "O", "P", "Q", "R", "S", "T", "U", "V", "W", "X", "Y", "Z",
     "0", "1", "2", "3", "4", "5", "6", "7", "8", "9", "_"}

isWordByte(b) == b \in WordBytes

escapeByte == "$"

\* os.Getenv: the value of the variable, "" when it is unset
Getenv(name) == IF name \in DOMAIN env THEN env[name] ELSE <<>>

\* the closure writeEnv of parseExpression, on the loop state st
writeEnv(st, envName, isNumber) ==
    IF envName = <<>> THEN [st EXCEPT !.err = MalformedExpression]
    ELSE LET e == Getenv(envName)
             e2 == IF e = <<>> /\ isNumber THEN <<"0">> ELSE e
         IN  [st EXCEPT !.expr = st.expr \o e2]

\* one iteration of the loop of parseExpression, on byte i of src
peByte(src, i, st, isNumber) ==
    LET b == src[i]
    IN  IF b = escapeByte
        THEN IF st.escaping /\ Len(st.envvar) = 0
             THEN [st EXCEPT !.expr = st.expr \o <<b>>, !.escaping = FALSE]
             ELSE IF i = Len(src)
                  THEN [st EXCEPT !.escaping = TRUE, !.err = MalformedExpression]
                  ELSE [st EXCEPT !.escaping = TRUE, !.envvar = <<>>]
        ELSE IF st.escaping
        THEN IF isWordByte(b)
             THEN LET st1 == [st EXCEPT !.envvar = st.envvar \o <<b>>]
                  IN  IF i = Len(src) THEN writeEnv(st1, st1.envvar, isNumber) ELSE st1
             ELSE LET st1 == writeEnv(st, st.envvar, isNumber)
                  IN  IF st1.err # NoErr THEN st1
                      ELSE [st1 EXCEPT !.expr = st1.expr \o <<b>>,
                                       !.envvar = <<>>,
                                       !.escaping = FALSE]
        ELSE [st EXCEPT !.expr = st.expr \o <<b>>]

RECURSIVE peLoop(_, _, _, _)
peLoop(src, i, st, isNumber) ==
    IF i > Len(src) \/ st.err # NoErr THEN st
    ELSE peLoop(src, i + 1, peByte(src, i, st, isNumber), isNumber)

parseExpression(s, isNumber) ==
    LET st == peLoop(s, 1, [expr |-> <<>>, escaping |-> FALSE, envvar |-> <<>>,
                            err |-> NoErr], isNumber)
    IN  IF st.err # NoErr THEN [out |-> <<>>, err |-> st.err]
        ELSE [out |-> st.expr, err |-> NoErr]

----------------------------------------------------------------------------
(* Types and values (reflect) *)

IntKinds == {"Int", "Int8", "Int16", "Int32", "Int64"}

UintKinds == {"Uint", "Uint8", "Uint16", "Uint32", "Uint64"}

BoolT == [kind |-> "Bool"]
StringT == [kind |-> "String"]
IntT(kind) == [kind |-> kind]
SliceT(elem) == [kind |-> "Slice", elem |-> elem]
MapT(key, elem) == [kind |-> "Map", key |-> key, elem |-> elem]
StructT == [kind |-> "Struct"]

EmptyMap == [k \in {} |-> <<>>]

NilSlice == [nil |-> TRUE, len |-> 0, arr |-> <<>>]

NilMap == [nil |-> TRUE, m |-> EmptyMap]

\* reflect.Zero(typ)
ZeroValue(typ) ==
    CASE typ.kind = "Bool" -> FALSE
      [] typ.kind = "String" -> <<>>
      [] typ.kind \in IntKinds \cup UintKinds -> Zero
      [] typ.kind = "Slice" -> NilSlice
      [] typ.kind = "Map" -> NilMap
      [] OTHER -> <<>>

\* reflect.MakeSlice(typ, len, cap): arr is the backing array, Len(arr) the capacity
MakeSlice(typ, len, cap) ==
    [nil |-> FALSE, len |-> len, arr |-> [k \in 1..cap |-> ZeroValue(typ.elem)]]

\* the elements a reader of the slice sees
Elems(val) == SubSeq(val.arr, 1, val.len)

\* val.SetMapIndex(k, v)
SetMapIndex(val, k, v) ==
    [val EXCEPT !.m = [x \in (DOMAIN val.m) \cup {k} |-> IF x = k THEN v ELSE val.m[x]]]

----------------------------------------------------------------------------
(* The type coercer *)

\* sliceExtend with the copy loop of the reallocation left out (C5 depends on the copy)
sliceExtend_NoCopy(typ, val) ==
    LET v0 == IF val.nil THEN MakeSlice(typ, 0, 4) ELSE val
        index == v0.len
        sliceCap == Len(v0.arr)
    IN  IF index + 1 <= sliceCap
        THEN [v0 EXCEPT !.len = index + 1]
        ELSE MakeSlice(typ, index + 1, index + (sliceCap \div 2) + 1)

\* the reflect.Slice case of setWithProperType up to the recursive call: a nil
\* slice is made with capacity 4, then the length grows by one, in place when
\* the capacity allows and in a new backing array otherwise
sliceExtend(typ, val) ==
    LET v0 == IF val.nil THEN MakeSlice(typ, 0, 4) ELSE val
        index == v0.len
        sliceCap == Len(v0.arr)
        slice == MakeSlice(typ, index + 1, index + (sliceCap \div 2) + 1)
    IN  IF index + 1 <= sliceCap
        THEN [v0 EXCEPT !.len = index + 1]
        ELSE [slice EXCEPT !.arr =
                 [k \in 1..Len(slice.arr) |->
                     IF k <= index THEN v0.arr[k] ELSE slice.arr[k]]]

\* the reflect.Bool case, r the result of getBool
coerceBool(val, r) ==
    IF r.err = NoErr THEN [err |-> NoErr, val |-> r.v]
    ELSE [err |-> r.err, val |-> val]

\* the signed integer cases, r the result of getInt
coerceInt(kind, val, r) ==
    IF r.err = NoErr
    THEN IF minmaxIntCheck(kind, r.v)
         THEN [err |-> NoErr, val |-> r.v]
         ELSE [err |-> ValueOverflow, val |-> val]
    ELSE [err |-> r.err, val |-> val]

\* the unsigned integer cases, r the result of getUint
coerceUint(kind, val, r) ==
    IF r.err = NoErr
    THEN IF minmaxUintCheck(kind, r.v)
         THEN [err |-> NoErr, val |-> r.v]
         ELSE [err |-> ValueOverflow, val |-> val]
    ELSE [err |-> r.err, val |-> val]

\* the end of the reflect.Slice case: r is the result of coercing s into the
\* new last element of the extended slice v1
sliceStore(v1, r) ==
    [err |-> r.err, val |-> [v1 EXCEPT !.arr[v1.len] = r.val]]

\* the reflect.Map case after splitKeyVal: kv is its result, k and v the
\* results of coercing the key and the value into new zero values
mapStore(val, kv, k, v) ==
    LET v0 == IF val.nil THEN [nil |-> FALSE, m |-> EmptyMap] ELSE val
    IN  IF kv.err # NoErr THEN [err |-> kv.err, val |-> val]
        ELSE IF k.err # NoErr THEN [err |-> k.err, val |-> v0]
        ELSE IF v.err # NoErr THEN [err |-> v.err, val |-> v0]
        ELSE [err |-> NoErr, val |-> SetMapIndex(v0, k.val, v.val)]

\* setWithProperType(fl, typ, val, s, clr, isSubField); parser stands for
\* fl.tag.parserCreator != nil.  The result is the error returned and the
\* value val holds afterwards.  A custom parser is user code: it is taken to
\* keep the raw text.
RECURSIVE setWithProperType(_, _, _, _, _)
RECURSIVE sliceCase(_, _, _, _)
RECURSIVE mapCase(_, _, _, _, _)

sliceCase(parser, typ, v1, s) ==
    sliceStore(v1, setWithProperType(parser, typ.elem, v1.arr[v1.len], s, TRUE))

mapCase(parser, typ, val, s, kv) ==
    mapStore(val, kv,
             setWithProperType(parser, typ.key, ZeroValue(typ.key), kv.key, TRUE),
             setWithProperType(parser, typ.elem, ZeroValue(typ.elem), kv.val, TRUE))

setWithProperType(parser, typ, val, s, isSubField) ==
    LET kind == typ.kind
    IN  IF parser THEN [err |-> NoErr, val |-> s]
        ELSE CASE kind = "Bool" -> coerceBool(val, getBool(s))
               [] kind = "String" -> [err |-> NoErr, val |-> s]
               [] kind \in IntKinds -> coerceInt(kind, val, getInt(s))
               [] kind \in UintKinds -> coerceUint(kind, val, getUint(s))
               [] kind = "Slice" ->
                   IF isSubField THEN [err |-> UnsupportedNesting, val |-> val]
                   ELSE sliceCase(parser, typ, sliceExtend(typ, val), s)
               [] kind = "Map" ->
                   IF isSubField THEN [err |-> UnsupportedNesting, val |-> val]
                   ELSE mapCase(parser, typ, val, s, splitKeyVal(s))
               [] OTHER -> [err |-> UnsupportedType, val |-> val]

----------------------------------------------------------------------------
(* expr.Eval and fmt.Sprintf("%d"), on the expressions the model uses: sums *)
(* of decimal literals; the empty expression evaluates to 0.                *)

RECURSIVE evalSum(_, _, _, _)
evalSum(s, i, acc, cur) ==
    \* cur: the value of the literal being read, -1 when none has started
    IF i > Len(s)
    THEN IF cur < 0 THEN [err |-> ExpressionEvaluationError, v |-> 0]
         ELSE [err |-> NoErr, v |-> acc + cur]
    ELSE IF IsDigit(s[i])
    THEN evalSum(s, i + 1, acc, (IF cur < 0 THEN 0 ELSE cur * 10) + DigitVal(s[i]))
    ELSE IF s[i] = "+" /\ cur >= 0
    THEN evalSum(s, i + 1, acc + cur, -1)
    ELSE [err |-> ExpressionEvaluationError, v |-> 0]

Eval(s) == IF s = <<>> THEN [err |-> NoErr, v |-> 0] ELSE evalSum(s, 1, 0, -1)

RECURSIVE FormatInt(_)
FormatInt(n) ==
    IF n < 10 THEN <<Digits[n + 1]>>
    ELSE FormatInt(n \div 10) \o <<Digits[(n % 10) + 1]>>

----------------------------------------------------------------------------
(* The flag binder.  A binder state b is the flag object fl, the value val  *)
(* of the field it refers to, the error err of the last operation, and the  *)
(* history of the field: calls (the setDefault/set calls with their         *)
(* results) and applied (a value was written or recorded).                  *)

isBoolean(fl) == fl.field.typ.kind = "Bool"

isInteger(fl) == fl.field.typ.kind \in IntKinds \cup UintKinds

isString(fl) == fl.field.typ.kind = "String"

Call(op, name, s, err) == [op |-> op, name |-> name, raw |-> s, err |-> err]

\* the delayed path of setDefault and set: the raw value is kept
delaySet(b, fl1, call) ==
    [b EXCEPT !.fl = [fl1 EXCEPT !.lastValue = call.raw],
              !.err = NoErr,
              !.calls = Append(b.calls, call),
              !.applied = TRUE]

\* the immediate path of setDefault and set: r is the result of setWithProperType
coerced(b, fl1, call, r) ==
    [b EXCEPT !.fl = fl1,
              !.val = r.val,
              !.err = r.err,
              !.calls = Append(b.calls, [call EXCEPT !.err = r.err]),
              !.applied = TRUE]

\* setVia coercing at once whatever isNeedDelaySet says (C7 depends on the delay)
setVia_NoDelay(b, fl1, call) ==
    coerced(b, fl1, call,
            setWithProperType(fl1.tag.parserCreator, fl1.field.typ, b.val, call.raw, FALSE))

setVia(b, fl1, call) ==
    IF fl1.isNeedDelaySet THEN delaySet(b, fl1, call)
    ELSE coerced(b, fl1, call,
                 setWithProperType(fl1.tag.parserCreator, fl1.field.typ, b.val, call.raw, FALSE))

setDefault(b, s) ==
    setVia(b, [b.fl EXCEPT !.isAssigned = TRUE], Call("setDefault", <<>>, s, NoErr))

\* set without the assignment of isAssigned (C1 depends on it)
set_NotAssigned(b, actualFlagName, s) ==
    setVia(b,
           [b.fl EXCEPT !.isSet = TRUE,
                        !.actualFlagName = actualFlagName],
           Call("set", actualFlagName, s, NoErr))

set(b, actualFlagName, s) ==
    setVia(b,
           [b.fl EXCEPT !.isSet = TRUE,
                        !.isAssigned = TRUE,
                        !.actualFlagName = actualFlagName],
           Call("set", actualFlagName, s, NoErr))

\* fl.isNeedDelaySet as newFlag computes it
needDelaySet(field, tag) ==
    tag.parserCreator \/ (field.typ.kind # "Slice" /\ field.typ.kind # "Map")

\* initWith applying the default whatever dontSetValue says (C10 depends on the test)
initWith_IgnoresSkip(b, dontSetValue, isNumber, pe, ev) ==
    IF pe.err # NoErr THEN [b EXCEPT !.err = pe.err]
    ELSE IF isNumber /\ ev.err # NoErr THEN [b EXCEPT !.err = ev.err]
    ELSE IF b.fl.tag.defaultValue # <<>> /\ ZeroValue(b.fl.field.typ) = b.val
    THEN setDefault(b, IF isNumber THEN FormatInt(ev.v) ELSE pe.out)
    ELSE [b EXCEPT !.err = NoErr]

\* flag.init after parseExpression and expr.Eval: pe and ev are their results
initWith(b, dontSetValue, isNumber, pe, ev) ==
    IF pe.err # NoErr THEN [b EXCEPT !.err = pe.err]
    ELSE IF isNumber /\ ev.err # NoErr THEN [b EXCEPT !.err = ev.err]
    ELSE IF ~dontSetValue /\ b.fl.tag.defaultValue # <<>>
            /\ ZeroValue(b.fl.field.typ) = b.val
    THEN setDefault(b, IF isNumber THEN FormatInt(ev.v) ELSE pe.out)
    ELSE [b EXCEPT !.err = NoErr]

initEval(b, dontSetValue, isNumber, pe) ==
    initWith(b, dontSetValue, isNumber, pe, Eval(pe.out))

\* flag.init
init(b, dontSetValue) ==
    initEval(b, dontSetValue, isInteger(b.fl),
             parseExpression(b.fl.tag.defaultValue, isInteger(b.fl)))

\* newFlag(field, value, tag, clr, dontSetValue); b0 carries the field's value
\* and history from before the call
newFlag(field, tag, b0, dontSetValue) ==
    LET fl == [field |-> field,
               tag |-> tag,
               isAssigned |-> FALSE,
               isSet |-> FALSE,
               actualFlagName |-> <<>>,
               isNeedDelaySet |-> needDelaySet(field, tag),
               lastValue |-> <<>>]
    IN  IF ~field.canSet THEN [b0 EXCEPT !.fl = fl, !.err = FieldNotWritable]
        ELSE init([b0 EXCEPT !.fl = fl], dontSetValue)

----------------------------------------------------------------------------
(* The flag set: readPrompt *)

\* what a prompt call returns: the error, and the line or the yes/no answer
Answer(err, data, yes) == [err |-> err, data |-> data, yes |-> yes]

FailedRead == Answer(PromptIOError, <<>>, FALSE)

Binder(st, i) ==
    [fl |-> st.flags[i], val |-> st.rec[i], err |-> NoErr,
     calls |-> st.calls[i], applied |-> st.applied[i]]

PutBinder(st, i, b) ==
    [st EXCEPT !.flags[i] = b.fl, !.rec[i] = b.val,
               !.calls[i] = b.calls, !.applied[i] = b.applied]

Logged(st, i, a, setErr) ==
    [st EXCEPT !.log = Append(st.log, [field |-> i, err |-> a.err, data |-> a.data,
                                       yes |-> a.yes, setErr |-> setErr])]

\* the field after fl.set(data, data, clr) in readPrompt; b is the result of
\* the call.  The error fl.set returns is dropped by the code; the log keeps it.
viaSet(st, i, a, b) == Logged(PutBinder(st, i, b), i, a, b.err)

noSet(st, i, a) == Logged(st, i, a, NoErr)

\* the body of the loop of readPrompt for a field that is prompted; a is what
\* the prompt call returns, b the result of fl.set(data, data, clr)
promptWith(st, i, a, b) ==
    LET fl == st.flags[i]
    IN  IF fl.tag.isPassword
        THEN IF a.err = NoErr /\ a.data # <<>> THEN viaSet(st, i, a, b) ELSE noSet(st, i, a)
        ELSE IF isBoolean(fl)
        THEN IF a.err = NoErr
             THEN noSet([st EXCEPT !.rec[i] = a.yes, !.applied[i] = TRUE], i, a)
             ELSE noSet(st, i, a)
        ELSE IF fl.tag.defaultValue # <<>>
        THEN IF a.err = NoErr THEN viaSet(st, i, a, b) ELSE noSet(st, i, a)
        ELSE IF a.err = NoErr THEN viaSet(st, i, a, b) ELSE noSet(st, i, a)

promptField(st, i, a) ==
    promptWith([st EXCEPT !.err = a.err], i, a, set(Binder(st, i), a.data, a.data))

\* the loop of readPrompt from field i on; ans[i] is what the prompt call for
\* field i returns if it is made
RECURSIVE readPrompt(_, _, _)
RECURSIVE readPromptNext(_, _, _)

\* readPromptNext going on after a failed read (C8 depends on the stop)
readPromptNext_GoesOn(st1, i, ans) == readPrompt(st1, i + 1, ans)

readPromptNext(st1, i, ans) ==
    IF st1.err # NoErr THEN st1 ELSE readPrompt(st1, i + 1, ans)

readPrompt(st, i, ans) ==
    IF i > Len(st.flags) THEN st
    ELSE IF st.flags[i].isAssigned \/ st.flags[i].tag.prompt = <<>>
    THEN readPrompt(st, i + 1, ans)
    ELSE readPromptNext(promptField(st, i, ans[i]), i, ans)

----------------------------------------------------------------------------
(* The declared fields and the inputs *)

Tag(prompt, isPassword, defaultValue, required, parserCreator) ==
    [prompt |-> prompt, isPassword |-> isPassword, defaultValue |-> defaultValue,
     required |-> required, parserCreator |-> parserCreator]

Field(name, typ, canSet) == [name |-> name, typ |-> typ, canSet |-> canSet]

Decl(field, tag) == [field |-> field, tag |-> tag]

fName == Decl(Field("Name", StringT, TRUE), Tag(<<"N">>, FALSE, <<>>, TRUE, FALSE))
fForce == Decl(Field("Force", BoolT, TRUE), Tag(<<"F">>, FALSE, <<>>, FALSE, FALSE))
fEnv == Decl(Field("Env", MapT(StringT, StringT), TRUE), Tag(<<"E">>, FALSE, <<>>, FALSE, FALSE))
fPorts == Decl(Field("Ports", SliceT(IntT("Int8")), TRUE), Tag(<<"P">>, FALSE, <<"$", "A">>, FALSE, FALSE))
fPw == Decl(Field("Pw", StringT, TRUE), Tag(<<"W">>, TRUE, <<>>, FALSE, FALSE))
fLevel == Decl(Field("Level", IntT("Int8"), TRUE), Tag(<<"L">>, FALSE, <<"$", "A", "+", "1">>, FALSE, FALSE))
fTags == Decl(Field("Tags", SliceT(StringT), TRUE), Tag(<<>>, FALSE, <<"x">>, FALSE, FALSE))
fCustom == Decl(Field("Custom", SliceT(StringT), TRUE), Tag(<<>>, FALSE, <<"x">>, FALSE, TRUE))
fLimits == Decl(Field("Limits", MapT(StringT, IntT("Int8")), TRUE), Tag(<<>>, FALSE, <<>>, FALSE, FALSE))
fRO == Decl(Field("RO", StringT, FALSE), Tag(<<>>, FALSE, <<>>, FALSE, FALSE))

\* the configuration records: each field alone, and two records of several fields
Records ==
    << <<fName>>, <<fForce>>, <<fEnv>>, <<fPorts>>, <<fPw>>, <<fLevel>>, <<fTags>>,
       <<fCustom>>, <<fLimits>>, <<fRO>>,
       <<fForce, fEnv, fTags, fName>>,
       <<fPw, fPorts, fLevel>> >>

N(d) == Num(FALSE, <<d>>)

Slice(elems, stale) == [nil |-> FALSE, len |-> Len(elems), arr |-> elems \o stale]

\* the values a field of a single-field record may hold before binding
InitVals(d) ==
    CASE d.field.name = "Name" -> {<<>>, <<"z">>}
      [] d.field.name = "Force" -> {FALSE, TRUE}
      [] d.field.name = "Env" -> {NilMap, SetMapIndex([nil |-> FALSE, m |-> EmptyMap], <<"b">>, <<"0">>)}
      [] d.field.name = "Ports" ->
            {NilSlice, Slice(<<>>, <<>>), Slice(<<N(1)>>, <<N(9)>>),
             Slice(<<N(1), N(2), N(3)>>, <<N(0)>>)}
      [] d.field.name = "Level" -> {Zero, N(5)}
      [] d.field.name = "Tags" ->
            {NilSlice, Slice(<<<<"a">>>>, <<>>), Slice(<<<<"a">>, <<"b">>, <<"c">>>>, <<<<>>>>)}
      [] OTHER -> {ZeroValue(d.field.typ)}

InitRecs(ds) ==
    IF Len(ds) = 1 THEN {<<v>> : v \in InitVals(ds[1])}
    ELSE {[i \in 1..Len(ds) |-> ZeroValue(ds[i].field.typ)]}

\* the raw values given to setDefault and set
RawsFor(d) ==
    CASE d.field.name \in {"Ports"} -> {<<"5">>, <<"x">>, <<"3", "0", "0">>}
      [] d.field.name = "Level" -> {<<"9">>, <<"3", "0", "0">>}
      [] d.field.name = "Force" -> {<<"y">>, <<"0">>}
      [] d.field.name = "Env" ->
            {<<>>, <<"a">>, <<"a", "=", "1">>, <<"a", "=", "b", "=", "c">>}
      [] d.field.name = "Limits" ->
            {<<"a", "=", "1">>, <<"a", "=", "x">>, <<"b", "=", "2">>, <<"a">>}
      [] OTHER -> {<<"x", "x">>, <<"y", "y">>}

FlagNames == {<<"-", "f">>}

\* the lines typed at a prompt, besides the empty line
LinesFor(d) ==
    CASE d.field.name = "Ports" -> {<<"5">>, <<"x">>}
      [] d.field.name = "Level" -> {<<"9">>}
      [] d.field.name = "Env" -> {<<"a", "=", "1">>}
      [] OTHER -> {<<"x", "x">>}

Envs == <<[n \in {} |-> <<>>], [n \in {<<"A">>} |-> <<"7">>]>>

\* prompt.BasicDefault returns the default for an empty line
BasicDefault(line, def) == IF line = <<>> THEN def ELSE line

\* what the prompt call readPrompt makes for fl can return
AnswersFor(fl, d) ==
    LET lines == LinesFor(d) \cup {<<>>}
    IN  IF fl.isAssigned \/ fl.tag.prompt = <<>> THEN {FailedRead}
        ELSE IF fl.tag.isPassword
        THEN {FailedRead} \cup {Answer(NoErr, l, FALSE) : l \in lines}
        ELSE IF isBoolean(fl)
        THEN {FailedRead, Answer(NoErr, <<>>, TRUE), Answer(NoErr, <<>>, FALSE)}
        ELSE IF fl.tag.defaultValue # <<>>
        THEN {FailedRead} \cup
             {Answer(NoErr, BasicDefault(l, fl.tag.defaultValue), FALSE) : l \in lines}
        ELSE {FailedRead} \cup
             {Answer(NoErr, l, FALSE) : l \in {x \in lines : ~fl.tag.required \/ x # <<>>}}

RECURSIVE AnswerSeqs(_)
AnswerSeqs(n) ==
    IF n = 0 THEN {<<>>}
    ELSE {Append(p, a) : p \in AnswerSeqs(n - 1), a \in AnswersFor(flags[n], decl[n])}

RECURSIVE SumLen(_, _)
SumLen(cs, i) == IF i > Len(cs) THEN 0 ELSE Len(cs[i]) + SumLen(cs, i + 1)

\* the bound on setDefault/set calls
CallBudget(i) ==
    IF Len(decl) = 1 THEN Len(calls[i]) < MaxCalls
    ELSE SumLen(calls, 1) < MaxMultiCalls

----------------------------------------------------------------------------
(* The binder specification *)

NoArgs == [s |-> <<>>, isNumber |-> FALSE]
NoOut == [out |-> <<>>, err |-> NoErr]
NoCoIn == [typ |-> BoolT, val |-> FALSE, s |-> <<>>]
NoCoOut == [err |-> NoErr, val |-> FALSE]

Init ==
    /\ pc = "binder"
    /\ \E e \in 1..Len(Envs) : env = Envs[e]
    /\ \E k \in 1..Len(Records) :
          /\ decl = Records[k]
          /\ rec \in InitRecs(Records[k])
          /\ rec0 = rec
          /\ calls = [i \in 1..Len(Records[k]) |-> <<>>]
          /\ applied = [i \in 1..Len(Records[k]) |-> FALSE]
    /\ flags = <<>>
    /\ fsErr = NoErr
    /\ newErr = NoErr
    /\ newArg = FALSE
    /\ nPrompts = 0
    /\ plog = <<>>
    /\ peIn = NoArgs /\ peOut = NoOut /\ coIn = NoCoIn /\ coOut = NoCoOut

\* the flag set and the record as one value, and back
CurState ==
    [flags |-> flags, rec |-> rec, err |-> fsErr, calls |-> calls,
     applied |-> applied, log |-> plog]

Commit(st) ==
    /\ flags' = st.flags
    /\ rec' = st.rec
    /\ calls' = st.calls
    /\ applied' = st.applied
    /\ fsErr' = st.err
    /\ plog' = st.log

\* the result of newFlag for field i joins the state
CommitNew(i, b, dontSetValue) ==
    /\ rec' = [rec EXCEPT ![i] = b.val]
    /\ calls' = [calls EXCEPT ![i] = b.calls]
    /\ applied' = [applied EXCEPT ![i] = b.applied]
    /\ newErr' = b.err
    /\ flags' = IF b.err = NoErr THEN Append(flags, b.fl) ELSE flags
    /\ newArg' = dontSetValue

\* newFlag for the next declared field; the binder joins the flag set when
\* the construction succeeds, and a failed construction ends the binding
NewFlag ==
    /\ pc = "binder"
    /\ newErr = NoErr
    /\ Len(flags) < Len(decl)
    /\ \E dontSetValue \in BOOLEAN :
          LET i == Len(flags) + 1
              b0 == [fl |-> <<>>, val |-> rec[i], err |-> NoErr,
                     calls |-> calls[i], applied |-> applied[i]]
          IN  CommitNew(i, newFlag(decl[i].field, decl[i].tag, b0, dontSetValue), dontSetValue)
    /\ UNCHANGED <<env, decl, rec0, fsErr, nPrompts, plog, pc, peIn, peOut, coIn, coOut>>

SetDefault ==
    /\ pc = "binder"
    /\ newErr = NoErr
    /\ \E i \in 1..Len(flags) : \E s \in RawsFor(decl[i]) :
          /\ CallBudget(i)
          /\ Commit(PutBinder(CurState, i, setDefault(Binder(CurState, i), s)))
    /\ UNCHANGED <<env, decl, rec0, newErr, newArg, nPrompts, pc,
                   peIn, peOut, coIn, coOut>>

Set ==
    /\ pc = "binder"
    /\ newErr = NoErr
    /\ \E i \in 1..Len(flags) : \E s \in RawsFor(decl[i]) : \E name \in FlagNames :
          /\ CallBudget(i)
          /\ Commit(PutBinder(CurState, i, set(Binder(CurState, i), name, s)))
    /\ UNCHANGED <<env, decl, rec0, newErr, newArg, nPrompts, pc,
                   peIn, peOut, coIn, coOut>>

ReadPrompt ==
    /\ pc = "binder"
    /\ newErr = NoErr
    /\ flags # <<>>
    /\ nPrompts < MaxPrompts
    /\ \E ans \in AnswerSeqs(Len(flags)) :
          Commit(readPrompt([CurState EXCEPT !.log = <<>>], 1, ans))
    /\ nPrompts' = nPrompts + 1
    /\ UNCHANGED <<env, decl, rec0, newErr, newArg, pc, peIn, peOut, coIn, coOut>>

Next == NewFlag \/ SetDefault \/ Set \/ ReadPrompt

Spec == Init /\ [][Next]_vars

----------------------------------------------------------------------------
(* parseExpression alone: the arguments are drawn in the initial state *)

ExprBytes == {"$", "A", "B", "-"}

RECURSIVE StringsUpTo(_, _)
StringsUpTo(bytes, n) ==
    IF n = 0 THEN {<<>>}
    ELSE LET shorter == StringsUpTo(bytes, n - 1)
         IN  shorter \cup {Append(s, b) : s \in {x \in shorter : Len(x) = n - 1}, b \in bytes}

ResolveEnvs ==
    <<[n \in {<<"A">>, <<"B">>} |-> IF n = <<"A">> THEN <<"x">> ELSE <<"y", "z">>],
      [n \in {<<"A">>} |-> <<"x">>],
      [n \in {<<"A">>, <<"B">>} |-> IF n = <<"A">> THEN <<>> ELSE <<"y", "z">>]>>

IdleBinder ==
    /\ decl = <<>> /\ rec = <<>> /\ rec0 = <<>> /\ flags = <<>>
    /\ fsErr = NoErr /\ newErr = NoErr /\ newArg = FALSE
    /\ calls = <<>> /\ applied = <<>> /\ nPrompts = 0 /\ plog = <<>>

InitResolve ==
    /\ pc = "resolve"
    /\ \E e \in 1..Len(ResolveEnvs) : env = ResolveEnvs[e]
    /\ peIn \in [s : StringsUpTo(ExprBytes, MaxExprLen), isNumber : BOOLEAN]
    /\ peOut = NoOut
    /\ coIn = NoCoIn /\ coOut = NoCoOut
    /\ IdleBinder

Resolve ==
    /\ pc = "resolve"
    /\ peOut' = parseExpression(peIn.s, peIn.isNumber)
    /\ pc' = "resolved"
    /\ UNCHANGED <<env, peIn, coIn, coOut, binderVars>>

NextResolve == Resolve

SpecResolve == InitResolve /\ [][NextResolve]_vars

----------------------------------------------------------------------------
(* setWithProperType alone on the integer kinds *)

NumStrings ==
    {<<"0">>, <<"-", "1">>, <<"1", "2", "7">>, <<"1", "2", "8">>, <<"-", "1", "2", "8">>,
     <<"-", "1", "2", "9">>, <<"2", "5", "5">>, <<"2", "5", "6">>, <<"3", "0", "0">>,
     <<"3", "2", "7", "6", "8">>, <<"6", "5", "5", "3", "6">>,
     <<"-", "3", "2", "7", "6", "9">>,
     <<"2", "1", "4", "7", "4", "8", "3", "6", "4", "8">>,
     <<"-", "2", "1", "4", "7", "4", "8", "3", "6", "4", "9">>,
     <<"4", "2", "9", "4", "9", "6", "7", "2", "9", "6">>,
     <<"9", "2", "2", "3", "3", "7", "2", "0", "3", "6", "8", "5", "4", "7", "7", "5", "8", "0", "7">>,
     <<"9", "2", "2", "3", "3", "7", "2", "0", "3", "6", "8", "5", "4", "7", "7", "5", "8", "0", "8">>,
     <<"-", "9", "2", "2", "3", "3", "7", "2", "0", "3", "6", "8", "5", "4", "7", "7", "5", "8", "0", "9">>,
     <<"1", "8", "4", "4", "6", "7", "4", "4", "0", "7", "3", "7", "0", "9", "5", "5", "1", "6", "1", "5">>,
     <<"1", "8", "4", "4", "6", "7", "4", "4", "0", "7", "3", "7", "0", "9", "5", "5", "1", "6", "1", "6">>,
     <<"a", "b", "c">>, <<>>, <<"+", "5">>, <<"0", "7">>}

InitCoerce ==
    /\ pc = "coerce"
    /\ \E e \in 1..Len(Envs) : env = Envs[e]
    /\ coIn \in [typ : {IntT(k) : k \in IntKinds \cup UintKinds},
                 val : {Zero, N(5)},
                 s : NumStrings]
    /\ coOut = [err |-> NoErr, val |-> Zero]
    /\ peIn = NoArgs /\ peOut = NoOut
    /\ IdleBinder

Coerce ==
    /\ pc = "coerce"
    /\ coOut' = setWithProperType(FALSE, coIn.typ, coIn.val, coIn.s, FALSE)
    /\ pc' = "coerced"
    /\ UNCHANGED <<env, peIn, peOut, coIn, binderVars>>

NextCoerce == Coerce

SpecCoerce == InitCoerce /\ [][NextCoerce]_vars

----------------------------------------------------------------------------
(* Properties of the expression resolver *)

\* the length of the run of word bytes of s that starts at position i
RECURSIVE RunLen(_, _)
RunLen(s, i) ==
    IF i > Len(s) \/ ~(s[i] \in WordBytes) THEN 0 ELSE 1 + RunLen(s, i + 1)

\* what a reference to the variable name stands for
Substitution(name, isNumber) ==
    LET v == IF name \in DOMAIN env THEN env[name] ELSE <<>>
    IN  IF v = <<>> /\ isNumber THEN <<"0">> ELSE v

\* the expression with every reference substituted, read left to right:
\* "$$" is a literal "$", "$" and the run of word bytes after it is a
\* reference, "$" with neither is malformed
RECURSIVE Substituted(_, _, _)
Substituted(s, i, isNumber) ==
    IF i > Len(s) THEN [ok |-> TRUE, out |-> <<>>]
    ELSE IF s[i] # "$"
    THEN LET rest == Substituted(s, i + 1, isNumber)
         IN  [ok |-> rest.ok, out |-> <<s[i]>> \o rest.out]
    ELSE IF i < Len(s) /\ s[i + 1] = "$"
    THEN LET rest == Substituted(s, i + 2, isNumber)
         IN  [ok |-> rest.ok, out |-> <<"$">> \o rest.out]
    ELSE IF RunLen(s, i + 1) = 0 THEN [ok |-> FALSE, out |-> <<>>]
    ELSE LET n == RunLen(s, i + 1)
             rest == Substituted(s, i + 1 + n, isNumber)
         IN  [ok |-> rest.ok,
              out |-> Substitution(SubSeq(s, i + 1, i + n), isNumber) \o rest.out]

\* C3: resolve substitutes every variable reference: each run of word
\* characters after a "$" is replaced by the variable's value (by "0" when it
\* is unset or empty and the target is numeric), whatever byte ends the run,
\* another "$" included, and no reference is dropped.
C3_EveryReferenceSubstituted ==
    pc = "resolved" =>
        LET want == Substituted(peIn.s, 1, peIn.isNumber)
        IN  want.ok => peOut.err = NoErr /\ peOut.out = want.out

----------------------------------------------------------------------------
(* Properties of the type coercer *)

\* s is the decimal text of an integer: an optional "-" and digits, without
\* a leading zero
IsDecimalText(s) ==
    LET digits == IF s # <<>> /\ s[1] = "-" THEN Tail(s) ELSE s
    IN  /\ digits # <<>>
        /\ \A i \in 1..Len(digits) : IsDigit(digits[i])
        /\ Len(digits) > 1 => digits[1] # "0"
        /\ s # <<"-", "0">>

\* the integer a decimal text writes
ValueOfText(s) ==
    IF s[1] = "-" THEN Num(TRUE, Mag(Tail(s))) ELSE Num(FALSE, Mag(s))

\* the least and the greatest value of an integer sub-kind
KindMin(kind) ==
    CASE kind = "Int8" -> MinInt8
      [] kind = "Int16" -> MinInt16
      [] kind = "Int32" -> MinInt32
      [] kind \in {"Int", "Int64"} -> MinInt64
      [] OTHER -> Zero

KindMax(kind) ==
    CASE kind = "Int8" -> MaxInt8
      [] kind = "Int16" -> MaxInt16
      [] kind = "Int32" -> MaxInt32
      [] kind \in {"Int", "Int64"} -> MaxInt64
      [] kind = "Uint8" -> MaxUint8
      [] kind = "Uint16" -> MaxUint16
      [] kind = "Uint32" -> MaxUint32
      [] OTHER -> MaxUint64

OutOfRange(kind, v) == ~(NumLeq(KindMin(kind), v) /\ NumLeq(v, KindMax(kind)))

\* C4: for every integer or unsigned-integer sub-kind K and every integer v
\* outside K's range, coercing the decimal text of v fails with ValueOverflow,
\* never with TypeMismatch, and leaves the target value unchanged.
C4_OutOfRangeIsOverflow ==
    (pc = "coerced" /\ IsDecimalText(coIn.s)
        /\ OutOfRange(coIn.typ.kind, ValueOfText(coIn.s)))
    => (coOut.err = ValueOverflow /\ coOut.val = coIn.val)

----------------------------------------------------------------------------
(* Properties of the flag binder *)

Bound == 1..Len(flags)

\* C1: in every reachable state isSet implies isAssigned, and a binder that
\* is assigned stays assigned under setDefault, set and readPrompt.
C1_SetImpliesAssignedForever ==
    /\ [](\A i \in Bound : flags[i].isSet => flags[i].isAssigned)
    /\ [][\A i \in Bound : flags[i].isAssigned =>
              (i <= Len(flags') /\ flags'[i].isAssigned)]_vars

C1_Witness ==
    \E i \in Bound :
        /\ flags[i].isSet /\ flags[i].isAssigned
        /\ Len(calls[i]) >= 2
        /\ calls[i][1].op = "set" /\ calls[i][2].op = "setDefault"
        /\ nPrompts > 0

\* C2: whenever some operation (setDefault, set, or an answer written by
\* readPrompt, the yes/no answer written into a boolean field included) has
\* written or recorded a value for a field, the field's isAssigned is true.
C2_AppliedImpliesAssigned ==
    \A i \in Bound : applied[i] => flags[i].isAssigned

\* the field is a sequence or a map that setDefault and set coerce into at once
IsSliceField(i) == decl[i].field.typ.kind = "Slice" /\ ~decl[i].tag.parserCreator

IsMapField(i) == decl[i].field.typ.kind = "Map" /\ ~decl[i].tag.parserCreator

\* the value a raw text stands for in an element of type typ
Coerced(typ, raw) ==
    IF typ.kind = "String" THEN raw ELSE ValueOfText(raw)

InitialElems(i) == IF rec0[i].nil THEN <<>> ELSE SubSeq(rec0[i].arr, 1, rec0[i].len)

\* C5: after n calls on a sequence field the sequence is n longer than before;
\* the i-th call's element sits at index (initial length + i) counted from 1
\* and holds the call's coerced value when the coercion succeeded; the
\* elements that were there before keep their places and values, also when
\* the backing array was reallocated.
C5_SliceAccumulatesInOrder ==
    \A i \in 1..Len(decl) : IsSliceField(i) /\ calls[i] # <<>> =>
        LET elems == SubSeq(rec[i].arr, 1, rec[i].len)
            n0 == Len(InitialElems(i))
        IN  /\ ~rec[i].nil
            /\ rec[i].len <= Len(rec[i].arr)
            /\ Len(elems) = n0 + Len(calls[i])
            /\ SubSeq(elems, 1, n0) = InitialElems(i)
            /\ \A j \in 1..Len(calls[i]) :
                  calls[i][j].err = NoErr =>
                      elems[n0 + j] = Coerced(decl[i].field.typ.elem, calls[i][j].raw)

C5_Witness ==
    \E i \in 1..Len(decl) :
        /\ IsSliceField(i)
        /\ ~rec0[i].nil /\ rec0[i].len >= 1
        /\ Len(calls[i]) >= 2
        /\ Len(rec[i].arr) > Len(rec0[i].arr)
        /\ calls[i][1].err = NoErr /\ calls[i][2].err = NoErr
        /\ calls[i][1].raw # calls[i][2].raw

\* the key and the value of a raw text, split at its first "="
KeyLen(raw) ==
    CHOOSE n \in 0..Len(raw) :
        /\ \A j \in 1..n : raw[j] # "="
        /\ n < Len(raw) => raw[n + 1] = "="

KeyOf(raw) == SubSeq(raw, 1, KeyLen(raw))

ValOf(raw) == SubSeq(raw, KeyLen(raw) + 2, Len(raw))

\* the calls on field i that stored an entry
Stored(i) == {j \in 1..Len(calls[i]) : calls[i][j].err = NoErr}

LatestWith(i, key) ==
    CHOOSE j \in Stored(i) :
        /\ KeyOf(calls[i][j].raw) = key
        /\ \A k \in Stored(i) : KeyOf(calls[i][k].raw) = key => k <= j

\* C6: after any calls on a map field with raw values key=value or bare key,
\* the map holds for every key that occurred the value of the latest call
\* with that key (the empty string for a bare key), split at the first "=";
\* its keys are the keys it had and the keys that occurred, so a reused key
\* adds none; an empty raw value fails with EmptyPair; and the entries no
\* call named are as they were.
C6_MapLastValuePerKey ==
    \A i \in 1..Len(decl) : IsMapField(i) /\ calls[i] # <<>> =>
        LET keys == {KeyOf(calls[i][j].raw) : j \in Stored(i)}
        IN  /\ \A j \in 1..Len(calls[i]) :
                  calls[i][j].raw = <<>> <=> calls[i][j].err = EmptyPair
            /\ \A j \in Stored(i) : calls[i][j].raw # <<>>
            /\ DOMAIN rec[i].m = (DOMAIN rec0[i].m) \cup keys
            /\ \A key \in keys :
                  rec[i].m[key] =
                      Coerced(decl[i].field.typ.elem, ValOf(calls[i][LatestWith(i, key)].raw))
            /\ \A key \in (DOMAIN rec0[i].m) \ keys : rec[i].m[key] = rec0[i].m[key]

C6_Witness ==
    \E i \in 1..Len(decl) :
        /\ IsMapField(i)
        /\ Len(calls[i]) = 3
        /\ calls[i][1].raw = <<"a", "=", "1">>
        /\ calls[i][2].raw = <<>> /\ calls[i][2].err = EmptyPair
        /\ calls[i][3].raw = <<"a", "=", "b", "=", "c">>
        /\ rec[i].m[<<"a">>] = <<"b", "=", "c">>
        /\ rec0[i].m = EmptyMap
        /\ Cardinality(DOMAIN rec[i].m) = 1

\* the field's coercion is delayed
IsDelayed(i) ==
    decl[i].tag.parserCreator \/ ~(decl[i].field.typ.kind \in {"Slice", "Map"})

\* C7: a field uses delayed coercion exactly when it has a custom parser or
\* its kind is neither sequence nor map; for such a field the pending raw
\* value is the raw value of the most recent setDefault or set call, and no
\* such call changes the value of the target field.
C7_DelayedKeepsLastRaw ==
    /\ [](\A i \in Bound :
            /\ flags[i].isNeedDelaySet <=> IsDelayed(i)
            /\ (IsDelayed(i) /\ calls[i] # <<>>) =>
                   flags[i].lastValue = calls[i][Len(calls[i])].raw)
    /\ [][\A i \in 1..Len(decl) :
              (IsDelayed(i) /\ calls'[i] # calls[i]) => rec'[i] = rec[i]]_vars

C7_Witness ==
    \E i \in Bound :
        /\ IsDelayed(i)
        /\ Len(calls[i]) = 3
        /\ calls[i][1].raw = <<"x", "x">>
        /\ calls[i][2].raw = <<"y", "y">>
        /\ calls[i][3].raw = <<"x", "x">>
        /\ flags[i].lastValue = <<"x", "x">>
        /\ rec[i] = rec0[i]

----------------------------------------------------------------------------
(* Properties of the flag set *)

\* a step of readPrompt
PromptStep == nPrompts' = nPrompts + 1

\* readPrompt prompts for field i: it is not assigned and declares a prompt
Prompted(i) == ~flags[i].isAssigned /\ flags[i].tag.prompt # <<>>

Untouched(i) == flags'[i] = flags[i] /\ rec'[i] = rec[i] /\ calls'[i] = calls[i]

\* the read logged in entry e applied its answer to its field
AnswerApplied(e) ==
    LET i == e.field
    IN  IF decl[i].field.typ.kind = "Bool" /\ ~decl[i].tag.isPassword
        THEN rec'[i] = e.yes
        ELSE IF decl[i].tag.isPassword /\ e.data = <<>>
        THEN Untouched(i)
        ELSE /\ calls'[i] = Append(calls[i], [op |-> "set", name |-> e.data,
                                              raw |-> e.data, err |-> e.setErr])
             /\ flags'[i].isSet /\ flags'[i].isAssigned
             /\ IsDelayed(i) => flags'[i].lastValue = e.data

\* C8: readPrompt visits the fields in declaration order, reads nothing for a
\* field that is assigned or declares no prompt, and stops at the first read
\* that fails: the error is recorded in the flag set, no later field is read
\* or modified, and the fields read before keep what their answers applied.
C8_PromptInOrderFailFast ==
    [][PromptStep =>
        LET n == Len(plog')
            failed == n > 0 /\ plog'[n].err # NoErr
            stop == IF failed THEN plog'[n].field ELSE Len(flags)
        IN  /\ \A k \in 1..n : plog'[k].field \in Bound /\ Prompted(plog'[k].field)
            /\ \A k \in 1..(n - 1) :
                  plog'[k].field < plog'[k + 1].field /\ plog'[k].err = NoErr
            /\ \A i \in 1..stop : Prompted(i) => \E k \in 1..n : plog'[k].field = i
            /\ \A i \in Bound : (i > stop \/ ~Prompted(i)) => Untouched(i)
            /\ failed => fsErr' = plog'[n].err /\ Untouched(plog'[n].field)
            /\ \A k \in 1..n : plog'[k].err = NoErr => AnswerApplied(plog'[k])
    ]_vars

C8_Witness ==
    /\ Len(flags) = 4
    /\ Len(plog) = 2
    /\ plog[1].field = 1 /\ plog[1].err = NoErr /\ plog[1].yes /\ rec[1] = TRUE
    /\ plog[2].field = 2 /\ plog[2].err = PromptIOError
    /\ fsErr = PromptIOError
    /\ ~flags[4].isAssigned /\ flags[4].tag.prompt # <<>>

\* C9: no coercion error is swallowed during prompting: when applying a
\* prompted answer to a field fails in coercion, readPrompt records that
\* error for the caller and prompts no remaining field.
C9_PromptCoercionErrorSurfaced ==
    \A k \in 1..Len(plog) :
        plog[k].setErr # NoErr => (fsErr = plog[k].setErr /\ k = Len(plog))

\* the resolved default of a declared field
ExpectedDefault(d) ==
    CASE d.field.name = "Level" -> IF <<"A">> \in DOMAIN env THEN <<"8">> ELSE <<"1">>
      [] d.field.name = "Ports" -> IF <<"A">> \in DOMAIN env THEN <<"7">> ELSE <<>>
      [] d.field.name \in {"Tags", "Custom"} -> <<"x">>
      [] OTHER -> <<>>

\* C10: right after a successful construction isSet is false, and isAssigned
\* is true exactly when skip-defaulting is off, the default expression is not
\* empty and the field holds its zero value; then the resolved default was
\* applied through setDefault, and otherwise the field's value and the state
\* flags are untouched.
C10_ConstructionDefault ==
    [][Len(flags') = Len(flags) + 1 =>
        LET i == Len(flags')
            fl == flags'[i]
            d == decl[i]
            applies == /\ ~newArg'
                       /\ d.tag.defaultValue # <<>>
                       /\ rec[i] = ZeroValue(d.field.typ)
        IN  /\ ~fl.isSet
            /\ fl.isAssigned <=> applies
            /\ fl.actualFlagName = <<>>
            /\ applies =>
                  /\ calls'[i] = <<[op |-> "setDefault", name |-> <<>>,
                                    raw |-> ExpectedDefault(d), err |-> NoErr]>>
                  /\ IsDelayed(i) => (fl.lastValue = ExpectedDefault(d) /\ rec'[i] = rec[i])
                  /\ IsSliceField(i) =>
                        SubSeq(rec'[i].arr, 1, rec'[i].len) =
                            <<Coerced(d.field.typ.elem, ExpectedDefault(d))>>
            /\ ~applies =>
                  /\ rec'[i] = rec[i]
                  /\ calls'[i] = <<>>
                  /\ fl.lastValue = <<>>
                  /\ ~applied'[i]
    ]_vars

C10_Witness ==
    \E i \in Bound :
        /\ decl[i].field.name = "Level"
        /\ flags[i].isAssigned /\ ~flags[i].isSet
        /\ flags[i].lastValue = <<"8">>
        /\ Len(calls[i]) = 1
        /\ rec[i] = Zero

====
